---- MODULE Spec2Model ----
(***************************************************************************)
(* icon_maker.py: open Icon.jpeg, resize it to three fixed sizes and save  *)
(* each result as a PNG file.  The model follows the module body line by   *)
(* line, together with the behaviour of the calls it makes (Image.open,    *)
(* Image.resize, Image.save, zip, print) and the working directory the     *)
(* calls act on.  A run of the script is one process; the environment may  *)
(* start the script again after it has ended.                              *)
(***************************************************************************)
EXTENDS Integers, Sequences, FiniteSets

VARIABLES
    pc,           \* position of the process in the module body
    exitStatus,   \* "running", "zero" (normal end) or "nonzero" (uncaught exception)
    stdout,       \* lines printed by the current process
    disk,         \* working directory: file name -> file
    img,          \* the Image object bound to `img` (line 4)
    img_resized,  \* the Image object bound to `img_resized` (line 12)
    sizes,        \* the list bound to `sizes` (line 7)
    filenames,    \* the list bound to `filenames` (line 8)
    itS, itF,     \* elements consumed from each of zip's two iterators (line 11)
    size,         \* loop variable `size`
    filename,     \* loop variable `filename`
    written,      \* log: names the current process opened for writing, in order
    run,          \* number of the current process (1 = first run)
    prev          \* history: source and outputs at the end of the last successful run

vars == <<pc, exitStatus, stdout, disk, img, img_resized, sizes, filenames,
          itS, itF, size, filename, written, run, prev>>

(***************************************************************************)
(* Bounds of the model.                                                    *)
(***************************************************************************)
MaxRuns == 3      \* consecutive runs of the script
MaxTable == 3     \* longest table tried in the zip specification

(***************************************************************************)
(* Literals of the program.                                                *)
(***************************************************************************)
SourceName == "Icon.jpeg"

SizeTable == << <<16, 16>>, <<48, 48>>, <<128, 128>> >>

FilenameTable_dup == << "icon16.png", "icon48.png", "icon48.png" >>

FilenameTable_rev == << "icon128.png", "icon48.png", "icon16.png" >>

FilenameTable == << "icon16.png", "icon48.png", "icon128.png" >>

SuccessLine == "PNG icons generated successfully!"

Range(s) == { s[k] : k \in 1..Len(s) }

OutputNames == Range(FilenameTable)

FileNames == {SourceName} \cup OutputNames

(***************************************************************************)
(* Files and images.  A pixel array is represented by its provenance: the  *)
(* picture it comes from and the sequence of resamplings applied to it.    *)
(***************************************************************************)
NoPixels == [origin |-> <<"none", "none", "none", 0, 0>>, via |-> <<>>]

\* the pixels stored in an image file: `id` names the picture
Picture(id, fmt, mode, sz) == [origin |-> <<id, fmt, mode, sz[1], sz[2]>>, via |-> <<>>]

NoFile == [kind |-> "absent", fmt |-> "none", mode |-> "none",
           size |-> <<0, 0>>, px |-> NoPixels, complete |-> FALSE]

\* a file that exists and holds no image (empty, or not image data)
Garbage == [NoFile EXCEPT !.kind = "garbage"]

ImageFile(fmt, mode, sz, px, complete) ==
    [kind |-> "image", fmt |-> fmt, mode |-> mode, size |-> sz,
     px |-> px, complete |-> complete]

NoImage == [bound |-> FALSE, format |-> "none", mode |-> "none",
            size |-> <<0, 0>>, loaded |-> FALSE, px |-> NoPixels]

\* modes the PNG encoder accepts
PngModes == {"1", "L", "LA", "I", "P", "RGB", "RGBA"}

\* Image.save opens the target with mode "w+b": the old content is discarded
WriteFile_keep(old, new) == IF old.kind = "absent" THEN new ELSE old

WriteFile(old, new) == new

\* the encoder selected by the format argument of save
SaveFormat_source(im, src) == src.format

SaveFormat(im, src) == "PNG"

EncodeFile(im, fmt) == ImageFile(fmt, im.mode, im.size, im.px, TRUE)

\* Image.open reads the header only: format, mode and size; pixels are not decoded
OpenImage(f) ==
    [bound |-> TRUE, format |-> f.fmt, mode |-> f.mode, size |-> f.size,
     loaded |-> FALSE, px |-> NoPixels]

\* ImageFile.load: decode the pixel data of file f into the image object
Load(im, f) == [im EXCEPT !.loaded = TRUE, !.px = f.px]

Max(a, b) == IF a >= b THEN a ELSE b

Min(a, b) == IF a <= b THEN a ELSE b

Resampled(im, sz) ==
    [bound |-> TRUE, format |-> "none", mode |-> im.mode, size |-> sz,
     loaded |-> TRUE, px |-> [origin |-> im.px.origin, via |-> Append(im.px.via, sz)]]

\* aspect-preserving fit into the box sz (what Image.thumbnail computes)
ResizeImage_thumbnail(im, sz) ==
    LET w == im.size[1]
        h == im.size[2]
        fit == IF w * sz[2] >= h * sz[1]
                 THEN <<sz[1], Max(1, (h * sz[1]) \div w)>>
                 ELSE <<Max(1, (w * sz[2]) \div h), sz[2]>>
    IN  IF im.size = fit THEN [im EXCEPT !.format = "none"] ELSE Resampled(im, fit)

\* Image.resize(size): a new image of exactly the requested size; a copy of
\* the image when it already has that size
ResizeImage(im, sz) ==
    IF im.size = sz THEN [im EXCEPT !.format = "none"] ELSE Resampled(im, sz)

(***************************************************************************)
(* The environment: what Icon.jpeg and the output names may hold.          *)
(***************************************************************************)
SourceSizes == { <<16, 16>>, <<300, 100>>, <<512, 512>> }

SourceImages ==
    { ImageFile(fmt, mode, sz, Picture("A", fmt, mode, sz), c) :
        fmt \in {"JPEG", "TIFF"}, mode \in {"RGB", "CMYK"}, sz \in SourceSizes,
        c \in BOOLEAN }

SourceFiles == {NoFile, Garbage} \cup SourceImages

\* an output left by something other than this run of the script
Stale == ImageFile("GIF", "P", <<32, 32>>, Picture("old", "GIF", "P", <<32, 32>>), TRUE)

NoPrev == [valid |-> FALSE, src |-> NoFile, out |-> [n \in OutputNames |-> NoFile]]

Outputs(d) == [n \in OutputNames |-> d[n]]

Init ==
    /\ pc = "open"
    /\ exitStatus = "running"
    /\ stdout = <<>>
    /\ disk \in { d \in [FileNames -> SourceFiles \cup {Stale}] :
                    /\ d[SourceName] \in SourceFiles
                    /\ \A n \in OutputNames : d[n] \in {NoFile, Stale} }
    /\ img = NoImage
    /\ img_resized = NoImage
    /\ sizes = <<>>
    /\ filenames = <<>>
    /\ itS = 0
    /\ itF = 0
    /\ size = <<0, 0>>
    /\ filename = "none"
    /\ written = <<>>
    /\ run = 1
    /\ prev = NoPrev

(***************************************************************************)
(* An exception nothing catches: the traceback is printed and the process  *)
(* ends with a non-zero status.                                            *)
(***************************************************************************)
Uncaught_swallowed == pc' = "for" /\ UNCHANGED exitStatus

Uncaught == pc' = "failed" /\ exitStatus' = "nonzero"

\* line 4: img = Image.open("Icon.jpeg")
Open_placeholder ==
    /\ pc = "open"
    /\ img' = IF disk[SourceName].kind = "image"
                THEN OpenImage(disk[SourceName])
                ELSE [bound |-> TRUE, format |-> "none", mode |-> "RGB",
                      size |-> <<1, 1>>, loaded |-> TRUE,
                      px |-> Picture("blank", "none", "RGB", <<1, 1>>)]
    /\ pc' = "tables"
    /\ UNCHANGED <<exitStatus, stdout, disk, img_resized, sizes, filenames,
                   itS, itF, size, filename, written, run, prev>>

Open ==
    /\ pc = "open"
    /\ IF disk[SourceName].kind = "image"
         THEN /\ img' = OpenImage(disk[SourceName])
              /\ pc' = "tables"
              /\ UNCHANGED exitStatus
         ELSE /\ Uncaught
              /\ UNCHANGED img
    /\ UNCHANGED <<stdout, disk, img_resized, sizes, filenames,
                   itS, itF, size, filename, written, run, prev>>

\* lines 7-8: the two tables
DefineTables ==
    /\ pc = "tables"
    /\ sizes' = SizeTable
    /\ filenames' = FilenameTable
    /\ pc' = "for"
    /\ UNCHANGED <<exitStatus, stdout, disk, img, img_resized,
                   itS, itF, size, filename, written, run, prev>>

\* zip(strict=True): tables of unequal length raise ValueError
ForNext_strict ==
    /\ pc = "for"
    /\ IF itS < Len(sizes) /\ itF < Len(filenames)
         THEN /\ itS' = itS + 1
              /\ itF' = itF + 1
              /\ size' = sizes[itS + 1]
              /\ filename' = filenames[itF + 1]
              /\ pc' = "resize"
              /\ UNCHANGED exitStatus
         ELSE /\ IF itS = Len(sizes) /\ itF = Len(filenames)
                   THEN pc' = "print" /\ UNCHANGED exitStatus
                   ELSE Uncaught
              /\ UNCHANGED <<itS, itF, size, filename>>
    /\ UNCHANGED <<stdout, disk, img, img_resized, sizes, filenames,
                   written, run, prev>>

\* line 11: one step of `for size, filename in zip(sizes, filenames)`.
\* zip asks its first iterator, then its second, and stops at the first
\* that is exhausted.
ForNext ==
    /\ pc = "for"
    /\ IF itS = Len(sizes)
         THEN /\ pc' = "print"
              /\ UNCHANGED <<itS, itF, size, filename>>
         ELSE /\ itS' = itS + 1
              /\ IF itF = Len(filenames)
                   THEN /\ pc' = "print"
                        /\ UNCHANGED <<itF, size, filename>>
                   ELSE /\ itF' = itF + 1
                        /\ size' = sizes[itS + 1]
                        /\ filename' = filenames[itF + 1]
                        /\ pc' = "resize"
    /\ UNCHANGED <<exitStatus, stdout, disk, img, img_resized, sizes, filenames,
                   written, run, prev>>

\* img = img.resize(size): each resampling starts from the previous result
Resize_chain ==
    /\ pc = "resize"
    /\ img.loaded \/ disk[SourceName].complete
    /\ LET src == IF img.loaded THEN img ELSE Load(img, disk[SourceName])
       IN  /\ img' = ResizeImage(src, size)
           /\ img_resized' = ResizeImage(src, size)
    /\ pc' = "save"
    /\ UNCHANGED <<exitStatus, stdout, disk, sizes, filenames,
                   itS, itF, size, filename, written, run, prev>>

\* line 12: img_resized = img.resize(size).  resize first loads the pixel
\* data (once per image object); the result is a new image.
Resize ==
    /\ pc = "resize"
    /\ img.loaded \/ disk[SourceName].complete
    /\ img' = IF img.loaded THEN img ELSE Load(img, disk[SourceName])
    /\ img_resized' = ResizeImage(img', size)
    /\ pc' = "save"
    /\ UNCHANGED <<exitStatus, stdout, disk, sizes, filenames,
                   itS, itF, size, filename, written, run, prev>>

\* line 12 raising: the pixel data cannot be decoded (truncated file), or
\* the new image cannot be allocated
ResizeFail ==
    /\ pc = "resize"
    /\ Uncaught
    /\ UNCHANGED <<stdout, disk, img, img_resized, sizes, filenames,
                   itS, itF, size, filename, written, run, prev>>

\* the print statement indented into the loop body
Save_print ==
    /\ pc = "save"
    /\ img_resized.mode \in PngModes
    /\ disk' = [disk EXCEPT ![filename] =
                   WriteFile(@, EncodeFile(img_resized, SaveFormat(img_resized, img)))]
    /\ written' = Append(written, filename)
    /\ stdout' = Append(stdout, SuccessLine)
    /\ pc' = "for"
    /\ UNCHANGED <<exitStatus, img, img_resized, sizes, filenames,
                   itS, itF, size, filename, run, prev>>

\* line 13: img_resized.save(filename, "PNG") completing
Save ==
    /\ pc = "save"
    /\ img_resized.mode \in PngModes
    /\ disk' = [disk EXCEPT ![filename] =
                   WriteFile(@, EncodeFile(img_resized, SaveFormat(img_resized, img)))]
    /\ written' = Append(written, filename)
    /\ pc' = "for"
    /\ UNCHANGED <<exitStatus, stdout, img, img_resized, sizes, filenames,
                   itS, itF, size, filename, run, prev>>

\* line 13 raising before the target is opened for writing (no permission,
\* read-only directory): the directory is unchanged
SaveOpenFail ==
    /\ pc = "save"
    /\ Uncaught
    /\ UNCHANGED <<stdout, disk, img, img_resized, sizes, filenames,
                   itS, itF, size, filename, written, run, prev>>

\* what a save that raised after opening the target can leave under its name:
\* an empty file, a file cut short (only when the encoder started), or no file
\* (a file the call created may be removed again)
Leftovers(old, im) ==
    {Garbage}
    \cup (IF im.mode \in PngModes
            THEN { [EncodeFile(im, SaveFormat(im, img)) EXCEPT !.complete = FALSE] }
            ELSE {})
    \cup (IF old.kind = "absent" THEN {NoFile} ELSE {})

\* line 13 raising after the target was opened: the mode cannot be written
\* as PNG, or the device is full
SaveWriteFail ==
    /\ pc = "save"
    /\ \E left \in Leftovers(disk[filename], img_resized) :
          disk' = [disk EXCEPT ![filename] = left]
    /\ written' = Append(written, filename)
    /\ Uncaught
    /\ UNCHANGED <<stdout, img, img_resized, sizes, filenames,
                   itS, itF, size, filename, run, prev>>

\* line 15 and the end of the module: print, then exit normally
PrintSuccess ==
    /\ pc = "print"
    /\ stdout' = Append(stdout, SuccessLine)
    /\ pc' = "done"
    /\ exitStatus' = "zero"
    /\ UNCHANGED <<disk, img, img_resized, sizes, filenames,
                   itS, itF, size, filename, written, run, prev>>

Ended == pc \in {"done", "failed"}

\* the script is started again in the same directory; Icon.jpeg may have
\* been replaced, damaged or removed in between
NewRun ==
    /\ Ended
    /\ run < MaxRuns
    /\ run' = run + 1
    /\ prev' = IF pc = "done"
                 THEN [valid |-> TRUE, src |-> disk[SourceName], out |-> Outputs(disk)]
                 ELSE NoPrev
    /\ pc' = "open"
    /\ exitStatus' = "running"
    /\ stdout' = <<>>
    /\ img' = NoImage
    /\ img_resized' = NoImage
    /\ sizes' = <<>>
    /\ filenames' = <<>>
    /\ itS' = 0
    /\ itF' = 0
    /\ size' = <<0, 0>>
    /\ filename' = "none"
    /\ written' = <<>>
    /\ \E f \in SourceFiles : disk' = [disk EXCEPT ![SourceName] = f]

Next ==
    \/ Open
    \/ DefineTables
    \/ ForNext
    \/ Resize
    \/ ResizeFail
    \/ Save
    \/ SaveOpenFail
    \/ SaveWriteFail
    \/ PrintSuccess
    \/ NewRun

Spec == Init /\ [][Next]_vars

(***************************************************************************)
(* zip on tables of any length: the program with its two tables replaced   *)
(* by tables of 0..MaxTable entries each.                                  *)
(***************************************************************************)
Table(t, n) == [k \in 1..n |-> t[((k - 1) % Len(t)) + 1]]

ZDefineTables ==
    /\ pc = "tables"
    /\ \E m \in 0..MaxTable, n \in 0..MaxTable :
          /\ sizes' = Table(SizeTable, m)
          /\ filenames' = Table(FilenameTable, n)
    /\ pc' = "for"
    /\ UNCHANGED <<exitStatus, stdout, disk, img, img_resized,
                   itS, itF, size, filename, written, run, prev>>

ZInit ==
    /\ Init
    /\ disk[SourceName] = ImageFile("JPEG", "RGB", <<512, 512>>,
                                    Picture("A", "JPEG", "RGB", <<512, 512>>), TRUE)

ZNext ==
    \/ Open
    \/ ZDefineTables
    \/ ForNext
    \/ Resize
    \/ ResizeFail
    \/ Save
    \/ SaveOpenFail
    \/ SaveWriteFail
    \/ PrintSuccess

SpecZip == ZInit /\ [][ZNext]_vars

(***************************************************************************)
(* Properties.  The expected names, sizes and order are written out here   *)
(* as the specification states them, independently of the program's tables.*)
(***************************************************************************)
ExpectedOrder == << "icon16.png", "icon48.png", "icon128.png" >>

ExpectedNames == {"icon16.png", "icon48.png", "icon128.png"}

ExpectedSize(n) ==
    IF n = "icon16.png" THEN <<16, 16>>
    ELSE IF n = "icon48.png" THEN <<48, 48>>
    ELSE <<128, 128>>

\* Icon.jpeg as the current run sees it (it changes only between runs)
Source == disk[SourceName]

GoodSource == Source.kind = "image" /\ Source.complete

BadSource == ~GoodSource

\* file f holds a complete image made from the current source
Fresh(f) == f.kind = "image" /\ f.complete /\ f.px.origin = Source.px.origin

\* the file's content is something this script produced, in this run or an earlier one
ByScript(f) == f.kind = "image" /\ f # Stale

\* C1: with a valid, decodable Icon.jpeg, a run that completes has opened for
\* writing exactly three files, named icon16.png, icon48.png and icon128.png,
\* no file of another name, and each of the three now holds a complete image.
C1_ExactlyThreeFiles ==
    pc = "done" =>
        /\ GoodSource
        /\ Len(written) = 3
        /\ Range(written) = ExpectedNames
        /\ \A n \in ExpectedNames : Fresh(disk[n])

C1_Witness ==
    /\ pc = "done"
    /\ GoodSource
    /\ Len(written) = 3
    /\ Range(written) = ExpectedNames

\* C2: whatever the width and height of the source, every output the script
\* has written has exactly the size paired with its name: icon16.png 16x16,
\* icon48.png 48x48, icon128.png 128x128.
C2_ExactTargetSize ==
    /\ \A n \in ExpectedNames : ByScript(disk[n]) => disk[n].size = ExpectedSize(n)
    /\ \A k \in 1..Len(written) :
          disk[written[k]].kind = "image" => disk[written[k]].size = ExpectedSize(written[k])

C2_Witness ==
    /\ pc = "done"
    /\ Source.size = <<300, 100>>
    /\ disk["icon16.png"].size = <<16, 16>>
    /\ disk["icon48.png"].size = <<48, 48>>
    /\ disk["icon128.png"].size = <<128, 128>>

\* C3: when Icon.jpeg is missing or cannot be decoded, the run opens none of
\* the three outputs for writing, leaves all three as they were, prints
\* nothing and does not end normally.
C3_BadSourceNoOutput ==
    /\ [](BadSource => /\ written = <<>>
                       /\ stdout = <<>>
                       /\ pc # "done"
                       /\ exitStatus # "zero")
    /\ [][(BadSource /\ run' = run) => Outputs(disk') = Outputs(disk)]_vars

\* a truncated Icon.jpeg: open succeeded, the first resize raised
C3_Witness ==
    /\ Source.kind = "image"
    /\ ~Source.complete
    /\ img.bound
    /\ pc = "failed"
    /\ written = <<>>
    /\ disk["icon16.png"] = Stale

\* C4: a successful run that follows a successful run on the same Icon.jpeg
\* leaves the three outputs exactly as the earlier run left them, and every
\* successful run replaces whatever the three names held before by complete
\* images made from the current source.
C4_Idempotent ==
    pc = "done" =>
        /\ \A n \in ExpectedNames : Fresh(disk[n]) /\ disk[n] # Stale
        /\ (prev.valid /\ prev.src = Source) =>
              \A n \in ExpectedNames : disk[n] = prev.out[n]

C4_Witness ==
    /\ pc = "done"
    /\ run = MaxRuns
    /\ prev.valid
    /\ prev.src = Source

\* C5: the success line is printed at most once, only after all three outputs
\* were written, and a run ends normally exactly when it printed it; a run in
\* which the open, a resize or a save raised prints nothing and ends with a
\* non-zero status.
C5_SuccessLineOnlyAtEnd ==
    /\ Len(stdout) <= 1
    /\ stdout # <<>> =>
          /\ stdout = <<SuccessLine>>
          /\ pc = "done"
          /\ written = ExpectedOrder
          /\ \A n \in ExpectedNames : Fresh(disk[n])
    /\ pc = "done" => stdout = <<SuccessLine>>
    /\ exitStatus = "zero" <=> pc = "done"
    /\ pc = "failed" => stdout = <<>> /\ exitStatus = "nonzero"
    /\ (Len(written) < 3 \/ \E n \in ExpectedNames : ~Fresh(disk[n])) => exitStatus # "zero"

C5_Witness ==
    /\ pc = "done"
    /\ stdout = <<SuccessLine>>
    /\ exitStatus = "zero"
    /\ written = ExpectedOrder

\* number of loop bodies the current run has finished
Finished == IF pc \in {"resize", "save"} THEN itF - 1 ELSE itF

\* C6: the run goes on past an iteration only if its resize and save both
\* succeeded; once an exception was raised the process has ended with a
\* non-zero status, nothing is retried, and no output of a later iteration
\* is ever written.
C6_FailsOnFirstError ==
    /\ [](pc \in {"for", "resize", "save", "print", "done"} =>
             /\ Len(written) = Finished
             /\ \A k \in 1..Len(written) : Fresh(disk[written[k]]))
    /\ [](pc = "failed" =>
             /\ exitStatus = "nonzero"
             /\ Len(written) <= itF
             /\ \A j \in 1..Len(ExpectedOrder) :
                   j > itF => ExpectedOrder[j] \notin Range(written))
    /\ [][(pc = "failed" /\ run' = run) =>
             (pc' = "failed" /\ written' = written /\ disk' = disk)]_vars

\* the save of the second output raised after opening it
C6_Witness ==
    /\ pc = "failed"
    /\ itF = 2
    /\ written = <<"icon16.png", "icon48.png">>
    /\ ~Fresh(disk["icon48.png"])
    /\ "icon128.png" \notin Range(written)

\* C7: every image the script has put under an output name is PNG-encoded,
\* whatever the format of Icon.jpeg and whichever the iteration.
C7_AlwaysPng ==
    /\ \A n \in ExpectedNames : ByScript(disk[n]) => disk[n].fmt = "PNG"
    /\ \A k \in 1..Len(written) :
          disk[written[k]].kind = "image" => disk[written[k]].fmt = "PNG"
    /\ pc = "done" => \A n \in ExpectedNames : disk[n].fmt = "PNG"

C7_Witness ==
    /\ pc = "done"
    /\ Source.fmt = "JPEG"
    /\ \A n \in ExpectedNames : disk[n].fmt = "PNG" /\ disk[n].complete

\* pixels of the output for name n, from the source alone
ExpectedPixels(n) ==
    IF Source.size = ExpectedSize(n)
      THEN Source.px
      ELSE [origin |-> Source.px.origin, via |-> <<ExpectedSize(n)>>]

\* C8: once decoded, the source bitmap never changes and Icon.jpeg is never
\* written; every resize starts from that bitmap, so each output is determined
\* by the source and its own target size alone.
C8_SourceReadOnly ==
    /\ [](img_resized.bound =>
             /\ img.loaded
             /\ img.size = Source.size
             /\ img.mode = Source.mode
             /\ img.px = Source.px
             /\ pc = "save" => img_resized.px = ExpectedPixels(filename))
    /\ [](\A k \in 1..Len(written) :
             disk[written[k]].kind = "image" =>
                 disk[written[k]].px = ExpectedPixels(written[k]))
    /\ [][pc' # "open" => disk'[SourceName] = disk[SourceName]]_vars
    /\ [][(img.loaded /\ pc' # "open") => img' = img]_vars

C8_Witness ==
    /\ pc = "done"
    /\ Source.size = <<512, 512>>
    /\ img.px = Source.px
    /\ disk["icon128.png"].px = [origin |-> Source.px.origin, via |-> << <<128, 128>> >>]

\* C9: the two tables of the program have three entries each, so its loop
\* runs three times and uses every size and every name; in general the loop
\* runs min(#sizes, #filenames) times, and tables of unequal length end the
\* loop early without an error.
C9_ZipTruncates ==
    /\ [](Len(SizeTable) = 3 /\ Len(FilenameTable) = 3)
    /\ [](pc \in {"print", "done"} =>
             /\ itF = Min(Len(sizes), Len(filenames))
             /\ itS = Min(Len(sizes), itF + 1)
             /\ written = SubSeq(filenames, 1, itF)
             /\ (Len(sizes) = Len(filenames) => itS = Len(sizes) /\ itF = Len(filenames))
             /\ (sizes = SizeTable /\ filenames = FilenameTable) =>
                   (itF = 3 /\ written = ExpectedOrder))
    /\ [][pc = "for" => pc' \in {"for", "resize", "print"}]_vars

\* three sizes, two names: the loop ran twice and the third size was dropped
C9_Witness ==
    /\ pc = "done"
    /\ Len(sizes) = 3
    /\ Len(filenames) = 2
    /\ itS = 3
    /\ written = <<"icon16.png", "icon48.png">>

\* C10: outputs are written in the order icon16.png, icon48.png, icon128.png,
\* so the names written so far are always a prefix of that order; the outputs
\* of the iterations before a failure stay on disk with their new content.
C10_PrefixNoRollback ==
    /\ Len(written) <= Len(ExpectedOrder)
    /\ \A k \in 1..Len(written) :
          /\ k <= Len(ExpectedOrder)
          /\ written[k] = ExpectedOrder[k]
          /\ (k < Len(written) \/ pc # "failed") => Fresh(disk[written[k]])
    /\ pc = "failed" => \A k \in 1..(itF - 1) : Fresh(disk[ExpectedOrder[k]])

\* the third save failed: two fresh outputs next to a stale one
C10_Witness ==
    /\ pc = "failed"
    /\ itF = 3
    /\ Fresh(disk["icon16.png"])
    /\ Fresh(disk["icon48.png"])
    /\ disk["icon128.png"] = Stale

====
